---- MODULE Spec2Model ----
(***************************************************************************)
(* A model of modeling_siglip.py: the SigLIP vision encoder classes.       *)
(*                                                                         *)
(* A tensor is modelled by its shape (a sequence of naturals) and by the   *)
(* expression that computed it, written in postfix over the names of the   *)
(* sub-modules applied (a free term: two tensors with the same expression  *)
(* are equal whatever the weights are).  Errors raised by the framework    *)
(* (shape mismatch, unknown keyword, unknown name) end the running call.   *)
(*                                                                         *)
(* One behaviour is one use of the module: a configuration is built, then  *)
(* one constructor or one forward call runs to its end.  A forward body of *)
(* a class is run on a receiver that carries the sub-modules the body      *)
(* reads; SiglipVisionEmbeddings and SiglipMLP receivers are the ones      *)
(* their constructors build from the configuration.                        *)
(***************************************************************************)
EXTENDS Integers, Sequences, FiniteSets, TLC

VARIABLES
    config,          \* the SiglipVisionConfig in use
    op,              \* the operation running ("idle" before it starts)
    pc,              \* the source line the operation is about to execute
    status,          \* "idle", "running", "returned", "raised"
    error,           \* [kind, at]: the exception raised and the line raising it
    arg,             \* the argument the running operation was called with
    attrs,           \* a constructor's self: the attributes assigned so far
    emb,             \* the SiglipVisionEmbeddings instance built from config
    pixel_values,    \* argument of the embedding / transformer / model call
    patch_embed,     \* local of SiglipVisionEmbeddings.forward
    embeddings,      \* local of SiglipVisionEmbeddings.forward
    hidden_states,   \* argument and local of the MLP / layer / transformer
    residual,        \* local of SiglipEncoderLayer.forward
    calls,           \* sub-module invocations made so far, in order
    ret              \* the value returned

vars == <<config, arg, op, pc, status, error, attrs, emb, pixel_values, patch_embed,
          embeddings, hidden_states, residual, calls, ret>>

(* ------------------------------- bounds -------------------------------- *)
MaxDim == 2          \* hidden_size, intermediate_size, num_channels in 1..MaxDim
MaxPatch == 2        \* patch_size in 1..MaxPatch
MaxImage == 3        \* image_size in 1..MaxImage
MaxSide == 4         \* height and width of an input in 1..MaxSide
MaxBatch == 2        \* batch size of an input in 1..MaxBatch
MaxTokens == 2       \* sequence length of an MLP / layer input in 1..MaxTokens

(* ------------------------------- tensors ------------------------------- *)
Tensor(shape, expr) == [shape |-> shape, expr |-> expr]
NoTensor == Tensor(<<>>, <<>>)
NoError == [kind |-> "", at |-> 0]
Raise(kind, line) == [kind |-> kind, at |-> line]

Ok(t) == [ok |-> TRUE, t |-> t, kind |-> ""]
Fail(kind) == [ok |-> FALSE, t |-> NoTensor, kind |-> kind]

RECURSIVE Product(_)
Product(s) == IF s = <<>> THEN 1 ELSE Head(s) * Product(Tail(s))

(* --------------------------- SiglipVisionConfig ------------------------ *)
SiglipVisionConfig(hidden_size, intermediate_size, num_channels, image_size, patch_size) ==
    [hidden_size |-> hidden_size, intermediate_size |-> intermediate_size,
     num_channels |-> num_channels, image_size |-> image_size,
     patch_size |-> patch_size]

\* The configurations explored: every size a positive integer.
Configs ==
    {SiglipVisionConfig(h, i, c, s, p) :
        h \in 1..MaxDim, i \in 1..MaxDim, c \in 1..MaxDim,
        s \in 1..MaxImage, p \in 1..MaxPatch}

(* ------------------------ framework layer primitives ------------------- *)
\* A convolution that slides by one pixel instead of by a whole patch.
Conv2d_UnitStride(in_channels, out_channels, kernel_size, stride) ==
    [in_channels |-> in_channels, out_channels |-> out_channels,
     kernel_size |-> kernel_size, stride |-> 1, padding |-> 0]

\* nn.Conv2d(in_channels, out_channels, kernel_size, stride, padding="valid")
Conv2d(in_channels, out_channels, kernel_size, stride) ==
    [in_channels |-> in_channels, out_channels |-> out_channels,
     kernel_size |-> kernel_size, stride |-> stride, padding |-> 0]

\* Output extent of a convolution along one axis.
ConvOut(conv, n) == ((n + 2 * conv.padding - conv.kernel_size) \div conv.stride) + 1

\* Applying a Conv2d to a [B, C, H, W] tensor.
ApplyConv2d(conv, t) ==
    IF Len(t.shape) # 4 \/ t.shape[2] # conv.in_channels
          \/ t.shape[3] + 2 * conv.padding < conv.kernel_size
          \/ t.shape[4] + 2 * conv.padding < conv.kernel_size
    THEN Fail("RuntimeError")
    ELSE Ok(Tensor(<<t.shape[1], conv.out_channels,
                     ConvOut(conv, t.shape[3]), ConvOut(conv, t.shape[4])>>,
                   Append(t.expr, "patch_embedding")))

\* The input rows (or columns) output index i of the convolution reads.
Window(conv, i) == (i * conv.stride - conv.padding)..(i * conv.stride - conv.padding + conv.kernel_size - 1)

\* The output positions (patches) that read input pixel (r, c) of an H x W image.
PatchesOfPixel(conv, H, W, r, c) ==
    {ij \in (0..(ConvOut(conv, H) - 1)) \X (0..(ConvOut(conv, W) - 1)) :
        r \in Window(conv, ij[1]) /\ c \in Window(conv, ij[2])}

\* A flatten whose merged extent is the sum of the merged extents.
Flatten2_Sum(t) ==
    [shape |-> <<t.shape[1], t.shape[2], t.shape[3] + t.shape[4]>>,
     expr |-> Append(t.expr, "flatten")]

\* tensor.flatten(2): dimensions 2.. (0-based) are merged into one.
Flatten2(t) ==
    Tensor(<<t.shape[1], t.shape[2], Product(SubSeq(t.shape, 3, Len(t.shape)))>>,
           Append(t.expr, "flatten"))

\* tensor.transpose(1, 2) of a rank-3 tensor.
Transpose12(t) ==
    Tensor(<<t.shape[1], t.shape[3], t.shape[2]>>, Append(t.expr, "transpose"))

\* nn.Embedding(rows, dim) looked up at a [1, n] tensor of ids.
EmbeddingLookup(rows, dim, ids) ==
    IF \E k \in 1..Len(ids) : ids[k] < 0 \/ ids[k] >= rows
    THEN Fail("IndexError")
    ELSE Ok(Tensor(<<1, Len(ids), dim>>, <<"position_ids", "position_embedding">>))

\* Broadcast of two extents: equal, or one of them is 1.
BroadcastDim(a, b) == IF a = b THEN a ELSE IF a = 1 THEN b ELSE IF b = 1 THEN a ELSE -1

\* a + b on tensors of the same rank, with broadcasting.
Add(a, b) ==
    IF Len(a.shape) # Len(b.shape)
          \/ \E k \in 1..Len(a.shape) : BroadcastDim(a.shape[k], b.shape[k]) = -1
    THEN Fail("RuntimeError")
    ELSE Ok(Tensor([k \in 1..Len(a.shape) |-> BroadcastDim(a.shape[k], b.shape[k])],
                   a.expr \o b.expr \o <<"+">>))

\* nn.Linear(in_features, out_features) applied to a tensor.
Linear(name, in_features, out_features, t) ==
    IF Len(t.shape) = 0 \/ t.shape[Len(t.shape)] # in_features
    THEN Fail("RuntimeError")
    ELSE Ok(Tensor([k \in 1..Len(t.shape) |->
                       IF k = Len(t.shape) THEN out_features ELSE t.shape[k]],
                   Append(t.expr, name)))

\* nn.functional.gelu(t, approximate="tanh"): elementwise.
Gelu(t) == Tensor(t.shape, Append(t.expr, "gelu_tanh"))

\* nn.LayerNorm(dim) applied to a tensor.
LayerNorm(name, dim, t) ==
    IF Len(t.shape) = 0 \/ t.shape[Len(t.shape)] # dim
    THEN Fail("RuntimeError")
    ELSE Ok(Tensor(t.shape, Append(t.expr, name)))

(* ------------------------ SiglipVisionEmbeddings ----------------------- *)
\* An __init__ that reserves one more position than there are patches.
SiglipVisionEmbeddingsInit_ExtraPosition(cfg) ==
    LET num_patches == (cfg.image_size \div cfg.patch_size) * (cfg.image_size \div cfg.patch_size)
        num_positions == num_patches + 1
    IN [embed_dim |-> cfg.hidden_size,
        image_size |-> cfg.image_size,
        patch_size |-> cfg.patch_size,
        patch_embedding |-> Conv2d(cfg.num_channels, cfg.hidden_size,
                                   cfg.patch_size, cfg.patch_size),
        num_patches |-> num_patches,
        num_positions |-> num_positions,
        position_rows |-> num_positions,
        position_ids |-> [k \in 1..num_positions |-> k - 1]]

\* __init__: the sub-modules and the numbers derived from the configuration.
SiglipVisionEmbeddingsInit(cfg) ==
    LET num_patches == (cfg.image_size \div cfg.patch_size) * (cfg.image_size \div cfg.patch_size)
        num_positions == num_patches
    IN [embed_dim |-> cfg.hidden_size,
        image_size |-> cfg.image_size,
        patch_size |-> cfg.patch_size,
        patch_embedding |-> Conv2d(cfg.num_channels, cfg.hidden_size,
                                   cfg.patch_size, cfg.patch_size),
        num_patches |-> num_patches,
        num_positions |-> num_positions,
        position_rows |-> num_positions,
        position_ids |-> [k \in 1..num_positions |-> k - 1]]

\* Line 71: patch_embed = self.patch_embedding(pixel_values)
EmbConv(self, pv) == ApplyConv2d(self.patch_embedding, pv)

\* Line 76: embeddings = patch_embed.flatten(2)
EmbFlatten(pe) == Flatten2(pe)

\* Line 78: embeddings = embeddings.transpose(1, 2)
EmbTranspose(e) == Transpose12(e)

\* Line 80: embeddings = embeddings + self.position_embedding(self.position_ids)
EmbAddPosition(self, e) ==
    LET pos == EmbeddingLookup(self.position_rows, self.embed_dim, self.position_ids)
    IN IF pos.ok THEN Add(e, pos.t) ELSE pos

\* The whole of SiglipVisionEmbeddings.forward, as a sub-call of another body.
SiglipVisionEmbeddingsForward(self, pv) ==
    LET c == EmbConv(self, pv)
    IN IF c.ok THEN EmbAddPosition(self, EmbTranspose(EmbFlatten(c.t))) ELSE c

PixelInputs ==
    {Tensor(<<b, c, h, w>>, <<"pixel_values">>) :
        b \in 1..MaxBatch, c \in 1..MaxDim, h \in 1..MaxSide, w \in 1..MaxSide}

\* Inputs of the MLP and of the encoder layer: [D], [N, D] and [B, N, D].
HiddenInputs ==
    {Tensor(<<d>>, <<"hidden_states">>) : d \in 1..MaxDim}
    \cup {Tensor(<<n, d>>, <<"hidden_states">>) : n \in 1..MaxTokens, d \in 1..MaxDim}
    \cup {Tensor(<<b, n, d>>, <<"hidden_states">>) :
            b \in 1..MaxBatch, n \in 1..MaxTokens, d \in 1..MaxDim}

(* ---------------------- calls and control positions -------------------- *)
\* One invocation of a sub-module: which attribute, the keyword the argument
\* was passed under ("" when positional) and the argument.
CallRec(callee, kw, a) == [callee |-> callee, kw |-> kw, arg |-> a]

\* Python's argument binding for def forward(self, <params>): the call passes
\* npos positional arguments and the keyword arguments named in kws.
AcceptsCall(params, npos, kws) ==
    /\ npos <= Len(params)
    /\ kws \subseteq {params[k] : k \in (npos + 1)..Len(params)}
    /\ npos + Cardinality(kws) = Len(params)

Start(name, line) ==
    /\ status = "idle"
    /\ op' = name
    /\ pc' = line
    /\ status' = "running"

At(line) == status = "running" /\ pc = line

Throw(kind, line) ==
    /\ status' = "raised"
    /\ error' = Raise(kind, line)

Emb_Call ==
    \E pv \in PixelInputs :
        /\ Start("SiglipVisionEmbeddings.forward", 71)
        /\ pixel_values' = pv
        /\ arg' = pv
        /\ UNCHANGED <<config, error, attrs, emb, patch_embed, embeddings,
                       hidden_states, residual, calls, ret>>

Emb_L71 ==
    /\ At(71)
    /\ LET r == EmbConv(emb, pixel_values)
       IN IF r.ok
          THEN /\ patch_embed' = r.t
               /\ pc' = 76
               /\ UNCHANGED <<status, error>>
          ELSE /\ Throw(r.kind, 71)
               /\ UNCHANGED <<patch_embed, pc>>
    /\ UNCHANGED <<config, arg, op, attrs, emb, pixel_values, embeddings,
                   hidden_states, residual, calls, ret>>

Emb_L76 ==
    /\ At(76)
    /\ embeddings' = EmbFlatten(patch_embed)
    /\ pc' = 78
    /\ UNCHANGED <<config, arg, op, status, error, attrs, emb, pixel_values,
                   patch_embed, hidden_states, residual, calls, ret>>

Emb_L78 ==
    /\ At(78)
    /\ embeddings' = EmbTranspose(embeddings)
    /\ pc' = 80
    /\ UNCHANGED <<config, arg, op, status, error, attrs, emb, pixel_values,
                   patch_embed, hidden_states, residual, calls, ret>>

Emb_L80 ==
    /\ At(80)
    /\ LET r == EmbAddPosition(emb, embeddings)
       IN IF r.ok
          THEN /\ embeddings' = r.t
               /\ pc' = 81
               /\ UNCHANGED <<status, error>>
          ELSE /\ Throw(r.kind, 80)
               /\ UNCHANGED <<embeddings, pc>>
    /\ UNCHANGED <<config, arg, op, attrs, emb, pixel_values, patch_embed,
                   hidden_states, residual, calls, ret>>

Emb_L81 ==
    /\ At(81)
    /\ ret' = embeddings
    /\ status' = "returned"
    /\ UNCHANGED <<config, arg, op, pc, error, attrs, emb, pixel_values,
                   patch_embed, embeddings, hidden_states, residual, calls>>

(* ------------------------------ SiglipMLP ------------------------------ *)
SiglipMLPInit(cfg) ==
    [fc1 |-> [in_features |-> cfg.hidden_size, out_features |-> cfg.intermediate_size],
     fc2 |-> [in_features |-> cfg.intermediate_size, out_features |-> cfg.hidden_size]]

\* Line 91: hidden_states = self.fc1(hidden_states)
MlpFc1(self, t) == Linear("fc1", self.fc1.in_features, self.fc1.out_features, t)

\* Line 92: hidden_states = nn.functional.gelu(hidden_states, approximate="tanh")
MlpAct(t) == Gelu(t)

\* A second linear layer that keeps the intermediate width.
MlpFc2_KeepsWidth(self, t) ==
    Linear("fc2", self.fc2.in_features, self.fc2.in_features, t)

\* Line 93: hidden_states = self.fc2(hidden_states)
MlpFc2(self, t) == Linear("fc2", self.fc2.in_features, self.fc2.out_features, t)

\* The whole of SiglipMLP.forward, as a sub-call of the encoder layer.
SiglipMLPForward(self, t) ==
    LET a == MlpFc1(self, t)
    IN IF a.ok THEN MlpFc2(self, MlpAct(a.t)) ELSE a

MLP_Call ==
    \E t \in HiddenInputs :
        /\ Start("SiglipMLP.forward", 91)
        /\ hidden_states' = t
        /\ arg' = t
        /\ UNCHANGED <<config, error, attrs, emb, pixel_values, patch_embed,
                       embeddings, residual, calls, ret>>

MLP_L91 ==
    /\ At(91)
    /\ LET r == MlpFc1(SiglipMLPInit(config), hidden_states)
       IN IF r.ok
          THEN /\ hidden_states' = r.t
               /\ pc' = 92
               /\ calls' = Append(calls, CallRec("fc1", "", hidden_states))
               /\ UNCHANGED <<status, error>>
          ELSE /\ Throw(r.kind, 91)
               /\ calls' = Append(calls, CallRec("fc1", "", hidden_states))
               /\ UNCHANGED <<hidden_states, pc>>
    /\ UNCHANGED <<config, arg, op, attrs, emb, pixel_values, patch_embed,
                   embeddings, residual, ret>>

MLP_L92 ==
    /\ At(92)
    /\ hidden_states' = MlpAct(hidden_states)
    /\ calls' = Append(calls, CallRec("gelu", "", hidden_states))
    /\ pc' = 93
    /\ UNCHANGED <<config, arg, op, status, error, attrs, emb, pixel_values,
                   patch_embed, embeddings, residual, ret>>

MLP_L93 ==
    /\ At(93)
    /\ LET r == MlpFc2(SiglipMLPInit(config), hidden_states)
       IN IF r.ok
          THEN /\ hidden_states' = r.t
               /\ pc' = 94
               /\ UNCHANGED <<status, error>>
          ELSE /\ Throw(r.kind, 93)
               /\ UNCHANGED <<hidden_states, pc>>
    /\ calls' = Append(calls, CallRec("fc2", "", hidden_states))
    /\ UNCHANGED <<config, arg, op, attrs, emb, pixel_values, patch_embed,
                   embeddings, residual, ret>>

MLP_L94 ==
    /\ At(94)
    /\ ret' = hidden_states
    /\ status' = "returned"
    /\ UNCHANGED <<config, arg, op, pc, error, attrs, emb, pixel_values,
                   patch_embed, embeddings, hidden_states, residual, calls>>

(* --------------------------- SiglipEncoderLayer ------------------------ *)
\* The attention sub-module is an opaque callable returning a pair whose
\* first component has the shape of its input.
SelfAttention(t) == Tensor(t.shape, Append(t.expr, "self_attention"))

Layer_Call ==
    \E t \in HiddenInputs :
        /\ Start("SiglipEncoderLayer.forward", 111)
        /\ hidden_states' = t
        /\ arg' = t
        /\ UNCHANGED <<config, error, attrs, emb, pixel_values, patch_embed,
                       embeddings, residual, calls, ret>>

\* Lines 111 and 115: residual = hidden_states
Layer_SaveResidual ==
    /\ At(111) \/ At(115)
    /\ residual' = hidden_states
    /\ pc' = pc + 1
    /\ UNCHANGED <<config, arg, op, status, error, attrs, emb, pixel_values,
                   patch_embed, embeddings, hidden_states, calls, ret>>

\* Line 112 / 116: the layer norm the line applies.
LayerNormAt(line) == IF line = 112 THEN "layer_norm1" ELSE "layer_norm2"

\* Lines 112 and 116: hidden_states = self.layer_norm{1,2}(hidden_states)
Layer_Norm ==
    /\ At(112) \/ At(116)
    /\ LET r == LayerNorm(LayerNormAt(pc), config.hidden_size, hidden_states)
       IN IF r.ok
          THEN /\ hidden_states' = r.t
               /\ pc' = pc + 1
               /\ UNCHANGED <<status, error>>
          ELSE /\ Throw(r.kind, pc)
               /\ UNCHANGED <<hidden_states, pc>>
    /\ calls' = Append(calls, CallRec(LayerNormAt(pc), "", hidden_states))
    /\ UNCHANGED <<config, arg, op, attrs, emb, pixel_values, patch_embed,
                   embeddings, residual, ret>>

\* Line 113: hidden_states, _ = self.self_attention(hidden_states = hidden_states)
Layer_L113 ==
    /\ At(113)
    /\ hidden_states' = SelfAttention(hidden_states)
    /\ calls' = Append(calls, CallRec("self_attention", "hidden_states", hidden_states))
    /\ pc' = 114
    /\ UNCHANGED <<config, arg, op, status, error, attrs, emb, pixel_values,
                   patch_embed, embeddings, residual, ret>>

\* An add that doubles the sub-block's output instead of adding the residual.
ResidualAdd_Dropped(res, hs) == Add(hs, hs)

\* Lines 114 and 118: hidden_states = residual + hidden_states
ResidualAdd(res, hs) == Add(res, hs)

Layer_Add ==
    /\ At(114) \/ At(118)
    /\ LET r == ResidualAdd(residual, hidden_states)
       IN IF r.ok
          THEN /\ hidden_states' = r.t
               /\ pc' = pc + 1
               /\ UNCHANGED <<status, error>>
          ELSE /\ Throw(r.kind, pc)
               /\ UNCHANGED <<hidden_states, pc>>
    /\ calls' = Append(calls, CallRec("+", "", residual))
    /\ UNCHANGED <<config, arg, op, attrs, emb, pixel_values, patch_embed,
                   embeddings, residual, ret>>

\* Line 117: hidden_states = self.mlp(hidden_states)
Layer_L117 ==
    /\ At(117)
    /\ LET r == SiglipMLPForward(SiglipMLPInit(config), hidden_states)
       IN IF r.ok
          THEN /\ hidden_states' = r.t
               /\ pc' = 118
               /\ UNCHANGED <<status, error>>
          ELSE /\ Throw(r.kind, 117)
               /\ UNCHANGED <<hidden_states, pc>>
    /\ calls' = Append(calls, CallRec("mlp", "", hidden_states))
    /\ UNCHANGED <<config, arg, op, attrs, emb, pixel_values, patch_embed,
                   embeddings, residual, ret>>

Layer_L119 ==
    /\ At(119)
    /\ ret' = hidden_states
    /\ status' = "returned"
    /\ UNCHANGED <<config, arg, op, pc, error, attrs, emb, pixel_values,
                   patch_embed, embeddings, hidden_states, residual, calls>>

(* ------------------------- SiglipVisionTransformer --------------------- *)
\* def forward(self, pixel_values) of SiglipVisionEmbeddings (line 65) and of
\* SiglipVisionTransformer (line 135).
EmbeddingsForwardParams == <<"pixel_values">>
TransformerForwardParams == <<"pixel_values">>

\* Line 137: hidden_states = self.embeddings(pixel_values)
VT_Line137(self, pv) ==
    IF AcceptsCall(EmbeddingsForwardParams, 1, {})
    THEN SiglipVisionEmbeddingsForward(self, pv)
    ELSE Fail("TypeError")

\* Line 138 calling the encoder stack, as an opaque shape-preserving module.
VT_Line138_Encoder(self, hs) ==
    Ok(Tensor(hs.shape, Append(hs.expr, "encoder")))

\* Line 138: last_hidden_state = self.embeddings(input_embeds = hidden_states)
VT_Line138(self, hs) ==
    IF AcceptsCall(EmbeddingsForwardParams, 0, {"input_embeds"})
    THEN SiglipVisionEmbeddingsForward(self, hs)
    ELSE Fail("TypeError")

VT_Call ==
    \E pv \in PixelInputs :
        /\ Start("SiglipVisionTransformer.forward", 137)
        /\ pixel_values' = pv
        /\ arg' = pv
        /\ UNCHANGED <<config, error, attrs, emb, patch_embed, embeddings,
                       hidden_states, residual, calls, ret>>

VT_L137 ==
    /\ At(137)
    /\ LET r == VT_Line137(emb, pixel_values)
       IN IF r.ok
          THEN /\ hidden_states' = r.t
               /\ pc' = 138
               /\ UNCHANGED <<status, error>>
          ELSE /\ Throw(r.kind, 137)
               /\ UNCHANGED <<hidden_states, pc>>
    /\ calls' = Append(calls, CallRec("embeddings", "", pixel_values))
    /\ UNCHANGED <<config, arg, op, attrs, emb, pixel_values, patch_embed,
                   embeddings, residual, ret>>

\* Lines 138-141: the second call, then post_layernorm, then the return.
VT_L138 ==
    /\ At(138)
    /\ LET r == VT_Line138(emb, hidden_states)
           c138 == Append(calls, CallRec("embeddings", "input_embeds", hidden_states))
       IN IF ~r.ok
          THEN /\ Throw(r.kind, 138)
               /\ calls' = c138
               /\ UNCHANGED <<pc, ret>>
          ELSE LET n == LayerNorm("post_layernorm", emb.embed_dim, r.t)
                   c139 == Append(c138, CallRec("post_layernorm", "", r.t))
               IN /\ calls' = c139
                  /\ IF n.ok
                     THEN /\ ret' = n.t
                          /\ pc' = 141
                          /\ status' = "returned"
                          /\ UNCHANGED error
                     ELSE /\ Throw(n.kind, 139)
                          /\ UNCHANGED <<pc, ret>>
    /\ UNCHANGED <<config, arg, op, attrs, emb, pixel_values, patch_embed,
                   embeddings, hidden_states, residual>>

(* ---------------------------- SiglipVisionModel ------------------------ *)
\* A class body whose second method is spelled forward.
SiglipVisionModelMethods_Forward == {"__init__", "forward"}

\* The methods the class body of SiglipVisionModel defines.
SiglipVisionModelMethods == {"__init__", "forwrd"}

\* model(pixel_values): nn.Module.__call__ dispatches to the method named
\* forward; the base class's forward raises NotImplementedError.
Model_Call ==
    \E pv \in PixelInputs :
        /\ status = "idle"
        /\ op' = "SiglipVisionModel.__call__"
        /\ arg' = pv
        /\ pixel_values' = pv
        /\ IF "forward" \in SiglipVisionModelMethods
           THEN /\ pc' = 152
                /\ status' = "running"
                /\ UNCHANGED error
           ELSE /\ pc' = 143
                /\ Throw("NotImplementedError", 143)
        /\ UNCHANGED <<config, attrs, emb, patch_embed, embeddings,
                       hidden_states, residual, calls, ret>>

\* model.forwrd(pixel_values): the method called by its own name.
Model_Forwrd ==
    \E pv \in PixelInputs :
        /\ Start("SiglipVisionModel.forwrd", 152)
        /\ arg' = pv
        /\ pixel_values' = pv
        /\ UNCHANGED <<config, error, attrs, emb, patch_embed, embeddings,
                       hidden_states, residual, calls, ret>>

\* Line 152: return self.vision_model(pixel_values = pixel_values)
Model_L152 ==
    /\ At(152)
    /\ calls' = Append(calls, CallRec("vision_model", "pixel_values", pixel_values))
    /\ IF AcceptsCall(TransformerForwardParams, 0, {"pixel_values"})
       THEN /\ pc' = 137
            /\ UNCHANGED <<status, error>>
       ELSE /\ Throw("TypeError", 152)
            /\ UNCHANGED pc
    /\ UNCHANGED <<config, arg, op, attrs, emb, pixel_values, patch_embed,
                   embeddings, hidden_states, residual, ret>>

(* ------------------------------ constructors --------------------------- *)
\* A namespace in which the two missing classes are bound.
ModuleNames_Complete ==
    {"torch", "nn", "Optional", "Tuple", "SiglipVisionConfig",
     "SiglipVisionEmbeddings", "SiglipMLP", "SiglipEncoderLayer",
     "SiglipVisionTransformer", "SiglipVisionModel",
     "SiglipAttention", "SiglipEncoder"}

\* The names bound in the module's namespace once the file has been executed:
\* its imports and its class statements.
ModuleNames ==
    {"torch", "nn", "Optional", "Tuple", "SiglipVisionConfig",
     "SiglipVisionEmbeddings", "SiglipMLP", "SiglipEncoderLayer",
     "SiglipVisionTransformer", "SiglipVisionModel"}

\* The nn.Module classes of the file.
Classes ==
    {"SiglipVisionEmbeddings", "SiglipMLP", "SiglipEncoderLayer",
     "SiglipVisionTransformer", "SiglipVisionModel"}

\* One assignment self.<attr> = ... of an __init__ body: the global name its
\* right-hand side looks up ("" when it reads only locals) and its line.
Stmt(attr, ref, line) == [attr |-> attr, ref |-> ref, line |-> line]

InitBody(cls) ==
    CASE cls = "SiglipVisionEmbeddings" ->
            <<Stmt("config", "", 43), Stmt("embed_dim", "", 44),
              Stmt("image_size", "", 45), Stmt("patch_size", "", 46),
              Stmt("patch_embedding", "nn", 48), Stmt("num_patches", "", 56),
              Stmt("num_positions", "", 57), Stmt("position_embedding", "nn", 58),
              Stmt("position_ids", "torch", 59)>>
      [] cls = "SiglipMLP" ->
            <<Stmt("config", "", 86), Stmt("fc1", "nn", 87), Stmt("fc2", "nn", 88)>>
      [] cls = "SiglipEncoderLayer" ->
            <<Stmt("config", "", 100), Stmt("embed_dim", "", 101),
              Stmt("self_attention", "SiglipAttention", 102),
              Stmt("layer_norm1", "nn", 103), Stmt("mlp", "SiglipMLP", 104),
              Stmt("layer_norm2", "nn", 105)>>
      [] cls = "SiglipVisionTransformer" ->
            <<Stmt("config", "", 128),
              Stmt("embeddings", "SiglipVisionEmbeddings", 131),
              Stmt("encoder", "SiglipEncoder", 132),
              Stmt("post_layernorm", "nn", 133)>>
      [] cls = "SiglipVisionModel" ->
            <<Stmt("config", "", 147),
              Stmt("vision_model", "SiglipVisionTransformer", 148)>>

\* Running cls.__init__ from its i-th assignment with `done` already assigned:
\* a name that is not bound raises NameError; a class of the file is
\* constructed in turn and its exception propagates.
RECURSIVE RunInit(_, _, _)
RunInit(cls, i, done) ==
    IF i > Len(InitBody(cls))
    THEN [ok |-> TRUE, attrs |-> done, kind |-> "", at |-> 0]
    ELSE LET st == InitBody(cls)[i]
         IN IF st.ref # "" /\ st.ref \notin ModuleNames
            THEN [ok |-> FALSE, attrs |-> done, kind |-> "NameError", at |-> st.line]
            ELSE IF st.ref \in Classes
                 THEN LET sub == RunInit(st.ref, 1, {})
                      IN IF sub.ok
                         THEN RunInit(cls, i + 1, done \cup {st.attr})
                         ELSE [ok |-> FALSE, attrs |-> done,
                               kind |-> sub.kind, at |-> sub.at]
                 ELSE RunInit(cls, i + 1, done \cup {st.attr})

\* cls(config): the constructor call.
Construct ==
    \E cls \in Classes :
        /\ status = "idle"
        /\ op' = cls
        /\ LET r == RunInit(cls, 1, {})
           IN /\ attrs' = r.attrs
              /\ status' = IF r.ok THEN "returned" ELSE "raised"
              /\ error' = Raise(r.kind, r.at)
              /\ pc' = r.at
        /\ UNCHANGED <<config, arg, emb, pixel_values, patch_embed, embeddings,
                       hidden_states, residual, calls, ret>>

Init ==
    /\ config \in Configs
    /\ emb = SiglipVisionEmbeddingsInit(config)
    /\ arg = NoTensor
    /\ op = "idle"
    /\ pc = 0
    /\ status = "idle"
    /\ error = NoError
    /\ attrs = {}
    /\ pixel_values = NoTensor
    /\ patch_embed = NoTensor
    /\ embeddings = NoTensor
    /\ hidden_states = NoTensor
    /\ residual = NoTensor
    /\ calls = <<>>
    /\ ret = NoTensor

Next ==
    \/ Emb_Call \/ Emb_L71 \/ Emb_L76 \/ Emb_L78 \/ Emb_L80 \/ Emb_L81
    \/ MLP_Call \/ MLP_L91 \/ MLP_L92 \/ MLP_L93 \/ MLP_L94
    \/ Layer_Call \/ Layer_SaveResidual \/ Layer_Norm \/ Layer_L113
    \/ Layer_Add \/ Layer_L117 \/ Layer_L119
    \/ VT_Call \/ VT_L137 \/ VT_L138
    \/ Model_Call \/ Model_Forwrd \/ Model_L152
    \/ Construct

Spec == Init /\ [][Next]_vars

(* ============================== properties ============================= *)
Ended == status \in {"returned", "raised"}
Returned == status = "returned"
RaisedAt(line) == status = "raised" /\ error.at = line

Callees == [k \in 1..Len(calls) |-> calls[k].callee]
IsPrefix(a, b) == Len(a) <= Len(b) /\ SubSeq(b, 1, Len(a)) = a
Max(a, b) == IF a >= b THEN a ELSE b

InEmbeddings == op = "SiglipVisionEmbeddings.forward"
InMLP == op = "SiglipMLP.forward"
InLayer == op = "SiglipEncoderLayer.forward"
InTransformer == op \in {"SiglipVisionTransformer.forward", "SiglipVisionModel.forwrd"}

\* Of the [B, C, H, W] argument of a pixel call.
ArgB == arg.shape[1]
ArgC == arg.shape[2]
ArgH == arg.shape[3]
ArgW == arg.shape[4]
PatchesH == ArgH \div config.patch_size
PatchesW == ArgW \div config.patch_size
PatchCount == PatchesH * PatchesW
SidePatches == config.image_size \div config.patch_size

\* The sub-module calls SiglipVisionTransformer.forward itself has made.
TransformerCalls ==
    IF op = "SiglipVisionModel.forwrd" /\ calls # <<>> THEN Tail(calls) ELSE calls

(* ---- C1 ---- *)
\* C1 (as claimed): SiglipVisionTransformer.forward is embeddings, then the
\* encoder stack, then post_layernorm: a call whose input the embedding layer
\* accepts ends by returning, having invoked exactly these three in this order.
C1_LinearComposition ==
    (InTransformer /\ Ended /\ ~RaisedAt(137))
        => /\ Returned
           /\ [k \in 1..Len(TransformerCalls) |-> TransformerCalls[k].callee]
                 = <<"embeddings", "encoder", "post_layernorm">>

(* ---- C2 ---- *)
LayerOrder == <<"layer_norm1", "self_attention", "+", "layer_norm2", "mlp", "+">>

\* y = x + attention(layer_norm1(x)), in postfix.
LayerY(x) == x \o (x \o <<"layer_norm1", "self_attention">>) \o <<"+">>

\* y + mlp(layer_norm2(y)), in postfix, the MLP spelled out.
LayerOut(x) ==
    LayerY(x) \o (LayerY(x) \o <<"layer_norm2", "fc1", "gelu_tanh", "fc2">>) \o <<"+">>

\* C2: SiglipEncoderLayer.forward runs layer_norm1, self-attention, residual
\* add, layer_norm2, MLP, residual add in this order; the first residual is the
\* input x, the second is the result y of the first add (the input of
\* layer_norm2, not its output), and the value returned is y + mlp(layer_norm2(y))
\* with y = x + attention(layer_norm1(x)).
C2_LayerOrderAndResiduals ==
    InLayer =>
        /\ IsPrefix(Callees, LayerOrder)
        /\ (Len(calls) >= 1 => calls[1].arg = arg)
        /\ (Len(calls) >= 3 => calls[3].arg = arg)
        /\ (Len(calls) >= 4 => calls[4].arg.expr = LayerY(arg.expr))
        /\ (Len(calls) >= 6 => /\ calls[6].arg = calls[4].arg
                               /\ calls[6].arg # calls[5].arg)
        /\ (pc = 119 => Len(calls) = 6)
        /\ (Returned => /\ ret.expr = LayerOut(arg.expr)
                        /\ ret.shape = arg.shape
                        /\ Callees = LayerOrder)

C2_Witness == InLayer /\ Returned /\ Len(arg.shape) = 3

(* ---- C3 ---- *)
\* C3 (as claimed, for configurations with image_size >= patch_size): for
\* pixel_values of shape [B, num_channels, image_size, image_size],
\* SiglipVisionTransformer.forward (also reached through SiglipVisionModel)
\* returns a tensor of shape [B, (image_size // patch_size)^2, hidden_size].
C3_ReturnsPatchSequence ==
    (/\ InTransformer /\ Ended
     /\ config.image_size >= config.patch_size
     /\ ArgC = config.num_channels
     /\ ArgH = config.image_size /\ ArgW = config.image_size)
        => /\ Returned
           /\ ret.shape = <<ArgB, SidePatches * SidePatches, config.hidden_size>>

(* ---- C4 ---- *)
\* C4: SiglipVisionTransformer.forward calls the embedding layer first; when
\* that call returns it calls the embedding layer again, passing the first
\* call's output under the keyword input_embeds, which is no parameter of
\* SiglipVisionEmbeddings.forward, and that call raises TypeError at line 138.
\* No call invokes the encoder or post_layernorm and no call returns.
C4_SecondEmbeddingCallRaises ==
    InTransformer =>
        /\ ~Returned
        /\ (status = "running" => pc \in {152, 137, 138})
        /\ (status = "raised" => error.at \in {137, 138})
        /\ \A k \in 1..Len(calls) : calls[k].callee \notin {"encoder", "post_layernorm"}
        /\ (TransformerCalls # <<>> =>
               TransformerCalls[1] = CallRec("embeddings", "", arg))
        /\ (pc = 138 => hidden_states = SiglipVisionEmbeddingsForward(emb, arg).t)
        /\ (RaisedAt(138) =>
               /\ error.kind = "TypeError"
               /\ Len(TransformerCalls) = 2
               /\ TransformerCalls[2] = CallRec("embeddings", "input_embeds", hidden_states))
        /\ "input_embeds" \notin {EmbeddingsForwardParams[k] :
                                     k \in 1..Len(EmbeddingsForwardParams)}

C4_Witness ==
    /\ op = "SiglipVisionTransformer.forward"
    /\ RaisedAt(138)
    /\ error.kind = "TypeError"
    /\ Len(calls) = 2

(* ---- C5 ---- *)
\* C5: SiglipAttention and SiglipEncoder are bound nowhere, so constructing a
\* SiglipEncoderLayer raises NameError at the attention reference with none of
\* self_attention, layer_norm1, mlp, layer_norm2 assigned, and constructing a
\* SiglipVisionTransformer (also from SiglipVisionModel's constructor) raises
\* NameError at the encoder reference, after embeddings was assigned and
\* before post_layernorm is; none of the three constructors ever returns.
C5_ConstructorsRaiseNameError ==
    /\ "SiglipAttention" \notin ModuleNames
    /\ "SiglipEncoder" \notin ModuleNames
    /\ op = "SiglipEncoderLayer" =>
          /\ RaisedAt(102) /\ error.kind = "NameError"
          /\ attrs \cap {"self_attention", "layer_norm1", "mlp", "layer_norm2"} = {}
    /\ op = "SiglipVisionTransformer" =>
          /\ RaisedAt(132) /\ error.kind = "NameError"
          /\ "embeddings" \in attrs
          /\ attrs \cap {"encoder", "post_layernorm"} = {}
    /\ op = "SiglipVisionModel" =>
          /\ RaisedAt(132) /\ error.kind = "NameError"
          /\ "vision_model" \notin attrs

C5_Witness ==
    /\ op = "SiglipVisionTransformer"
    /\ status = "raised"
    /\ "embeddings" \in attrs

(* ---- C6 ---- *)
\* C6: SiglipVisionModel defines forwrd and no forward, so calling an instance
\* (which dispatches to forward) raises without invoking vision_model, while
\* forwrd(pixel_values) called by name passes the same pixel_values on to
\* vision_model under the keyword pixel_values.
C6_ForwardMisspelled ==
    /\ "forward" \notin SiglipVisionModelMethods
    /\ "forwrd" \in SiglipVisionModelMethods
    /\ op = "SiglipVisionModel.__call__" =>
          /\ status = "raised"
          /\ error.kind = "NotImplementedError"
          /\ calls = <<>>
    /\ (op = "SiglipVisionModel.forwrd" /\ pc # 152) =>
          /\ calls # <<>>
          /\ calls[1] = CallRec("vision_model", "pixel_values", arg)
          /\ pixel_values = arg

C6_Witness ==
    /\ op = "SiglipVisionModel.__call__"
    /\ status = "raised"
    /\ calls = <<>>

(* ---- C7 ---- *)
\* What C7 says of a call whose input has H >= patch_size and W >= patch_size.
C7_Body ==
    /\ ~RaisedAt(71)
    /\ pc >= 76 => patch_embed.shape = <<ArgB, config.hidden_size, PatchesH, PatchesW>>
    /\ \A r \in 0..(ArgH - 1), c \in 0..(ArgW - 1) :
          LET ps == PatchesOfPixel(emb.patch_embedding, ArgH, ArgW, r, c)
          IN /\ Cardinality(ps) <= 1
             /\ (\/ r >= ArgH - (ArgH % config.patch_size)
                 \/ c >= ArgW - (ArgW % config.patch_size)) => ps = {}
    /\ pc = 80 => embeddings.shape = <<ArgB, PatchCount, config.hidden_size>>
    /\ PatchCount = emb.num_positions =>
          /\ status # "raised"
          /\ pc = 81 => embeddings.shape = <<ArgB, PatchCount, config.hidden_size>>
          /\ Returned => ret.shape = <<ArgB, PatchCount, config.hidden_size>>

\* C7 (as claimed): for every input [B, C, H, W] with H >= patch_size and
\* W >= patch_size the convolution yields (H // patch_size) x (W // patch_size)
\* non-overlapping patches, and so on.
C7_Original ==
    (/\ InEmbeddings /\ (pc # 71 \/ Ended)
     /\ ArgH >= config.patch_size /\ ArgW >= config.patch_size)
        => C7_Body

\* C7 (amended): for every input [B, C, H, W] with C = num_channels,
\* H >= patch_size and W >= patch_size, the convolution yields
\* (H // patch_size) x (W // patch_size) patches, every pixel lies in at most one
\* patch and the pixels of the trailing rows and columns in none; after flatten
\* and transpose the shape is [B, patches, hidden_size], and when the patch
\* count equals num_positions the add keeps that shape and it is returned.
C7_PatchesOfAcceptedInput ==
    (/\ InEmbeddings
     /\ ArgC = config.num_channels
     /\ ArgH >= config.patch_size /\ ArgW >= config.patch_size)
        => C7_Body

C7_Witness ==
    /\ InEmbeddings /\ Returned
    /\ ArgH % config.patch_size # 0
    /\ ArgH # ArgW
    /\ PatchCount > 1

LastDim(t) == t.shape[Len(t.shape)]

\* C9: SiglipMLP.forward applies fc1, the tanh GELU and fc2 in this order; an
\* input whose last dimension is hidden_size is returned with its shape
\* unchanged (so the layer's second residual add never fails), and any other
\* input is rejected by fc1.
C9_MlpKeepsShape ==
    /\ InMLP =>
          /\ IsPrefix(Callees, <<"fc1", "gelu", "fc2">>)
          /\ LastDim(arg) = config.hidden_size =>
                /\ status # "raised"
                /\ pc = 92 => LastDim(hidden_states) = config.intermediate_size
                /\ Returned => /\ ret.shape = arg.shape
                               /\ ret.expr = arg.expr \o <<"fc1", "gelu_tanh", "fc2">>
                               /\ Len(calls) = 3
          /\ LastDim(arg) # config.hidden_size =>
                /\ pc = 91
                /\ ~Returned
                /\ status = "raised" => error = Raise("RuntimeError", 91)
    /\ InLayer => ~RaisedAt(117) /\ ~RaisedAt(118)

C9_Witness ==
    /\ InMLP /\ Returned
    /\ config.intermediate_size # config.hidden_size
    /\ Len(arg.shape) = 3

(* ---- C10 ---- *)
PositionsFixed ==
    /\ emb.num_positions = SidePatches * SidePatches
    /\ emb.position_ids = [k \in 1..emb.num_positions |-> k - 1]
    /\ \A k \in 1..Len(emb.position_ids) :
          emb.position_ids[k] >= 0 /\ emb.position_ids[k] < emb.position_rows

\* C10 (as claimed), for inputs with the configured number of channels and
\* configurations with image_size >= patch_size: an input whose patch count n
\* differs from num_positions ends in an error at the
\* add when neither is 1, and returns max(n, num_positions) tokens when exactly
\* one of them is 1; a non-square input with n = num_positions is accepted.
C10_Original ==
    /\ PositionsFixed
    /\ (/\ InEmbeddings /\ Ended
        /\ ArgC = config.num_channels
        /\ config.image_size >= config.patch_size) =>
          /\ (PatchCount # emb.num_positions /\ PatchCount # 1 /\ emb.num_positions # 1)
                => RaisedAt(80)
          /\ (PatchCount # emb.num_positions /\ (PatchCount = 1 \/ emb.num_positions = 1))
                => Returned /\ ret.shape[2] = Max(PatchCount, emb.num_positions)
          /\ (PatchCount = emb.num_positions /\ ArgH # ArgW) => Returned

\* C10 (amended): num_positions is (image_size // patch_size)^2 and
\* position_ids is 0..num_positions-1, whatever the input.  An input the
\* convolution rejects (C # num_channels, H < patch_size or W < patch_size)
\* ends in an error at line 71.  For any other input with patch count
\* n # num_positions, forward ends in a shape error at the add when neither is
\* 1, returns n tokens when num_positions = 1 and returns num_positions tokens
\* when n = 1; with n = num_positions it returns n tokens, square or not.
C10_PositionsAndBroadcast ==
    /\ PositionsFixed
    /\ (InEmbeddings /\ Ended) =>
          IF ArgC # config.num_channels \/ ArgH < config.patch_size
                \/ ArgW < config.patch_size
          THEN RaisedAt(71)
          ELSE /\ (PatchCount # emb.num_positions /\ PatchCount # 1 /\ emb.num_positions # 1)
                     => RaisedAt(80) /\ error.kind = "RuntimeError"
               /\ (PatchCount # emb.num_positions /\ emb.num_positions = 1)
                     => Returned /\ ret.shape[2] = PatchCount
               /\ (PatchCount # emb.num_positions /\ PatchCount = 1)
                     => Returned /\ ret.shape[2] = emb.num_positions
               /\ PatchCount = emb.num_positions
                     => Returned /\ ret.shape = <<ArgB, PatchCount, config.hidden_size>>

C10_Witness ==
    /\ InEmbeddings /\ Returned
    /\ emb.num_positions = 1
    /\ PatchCount > 1
    /\ ret.shape[2] = PatchCount

====
